---- MODULE Spec2Model ----
(***************************************************************************)
(* A model of src/src/lib.rs: the LargeObject stream handle over the       *)
(* Postgres large object calls (lo_create, lo_unlink, lo_open, loread,     *)
(* lowrite, lo_lseek[64], lo_truncate[64], lo_close).                      *)
(*                                                                         *)
(* Integer widths are scaled so that every boundary of the code can be     *)
(* enumerated: the code's i32 is modelled as a W32-bit and                 *)
(* its i64 / u64 / usize as a W64-bit two's complement integer; every      *)
(* limit of the code (i32::max_value(), the `as i32` casts, ...) is        *)
(* computed from these widths the way the code computes it from 32 / 64.   *)
(***************************************************************************)
EXTENDS Integers, Sequences, FiniteSets, TLC

\* ---------------------------------------------------------------- bounds
W32 == 2
W64 == 4
MaxHandles == 2
MaxOids == 1
ReadChunk == 1

\* ----------------------------------------------------- integers of the code
RECURSIVE Pow2(_)
Pow2(n) == IF n = 0 THEN 1 ELSE 2 * Pow2(n - 1)

I32Max == Pow2(W32 - 1) - 1
I32Min == -Pow2(W32 - 1)
I64Max == Pow2(W64 - 1) - 1
I64Min == -Pow2(W64 - 1)
U64Max == Pow2(W64) - 1

\* `x as i32`, `x as i64`, `x as u64`: two's complement truncation
AsI32(x) == ((x - I32Min) % Pow2(W32)) + I32Min
AsI64(x) == ((x - I64Min) % Pow2(W64)) + I64Min
AsU64(x) == x % Pow2(W64)

Min(a, b) == IF a <= b THEN a ELSE b

\* the element of a set of one element.  The({e(x) : x \in {v}}) is e of
\* the value of v, computed once: what a statement makes of the value the
\* statement before it returned
The(S) == CHOOSE y \in S : TRUE

\* ----------------------------------------------------------- byte strings
Take(s, n) == SubSeq(s, 1, Min(n, Len(s)))
Skip(s, n) == SubSeq(s, Min(n, Len(s)) + 1, Len(s))
Zeros(n) == [i \in 1..n |-> 0]

\* the largest object the server stores, and the longest buffer a caller
\* passes: one byte more than one remote call can carry
MaxObjSize == I32Max + 1
MaxBuf == I32Max + 1
Pattern(n) == [i \in 1..n |-> (i % 2) + 1]
Buffers == {Pattern(n) : n \in 0..MaxBuf} \cup {<<1>>}

\* ------------------------------------------------------------------ Mode
INV_READ == 262144
INV_WRITE == 131072
Modes == {"Read", "Write", "ReadWrite"}
to_i32(mode) ==
    CASE mode = "Read" -> INV_READ
      [] mode = "Write" -> INV_WRITE
      [] mode = "ReadWrite" -> INV_READ + INV_WRITE

\* ------------------------------------------------------- server version
\* the strings the connection reports as server_version: the server prints
\* its major and minor number in decimal, separated by a dot, and may add a
\* patch number ("9.2.4", "9.3", "10.1")
DigitChars == <<"0", "1", "2", "3", "4", "5", "6", "7", "8", "9">>
RECURSIVE Decimal(_)
Decimal(n) ==
    IF n < 10 THEN <<DigitChars[n + 1]>>
    ELSE Decimal(n \div 10) \o <<DigitChars[(n % 10) + 1]>>

Majors == 7..12
Minors == 0..12
Patches == {<<>>, <<".", "4">>}
VersionString(major, minor, patch) == Decimal(major) \o <<".">> \o Decimal(minor) \o patch
Versions == {VersionString(a, b, p) : a \in Majors, b \in Minors, p \in Patches}

Digit(c) ==
    CASE c = "0" -> 0 [] c = "1" -> 1 [] c = "2" -> 2 [] c = "3" -> 3
      [] c = "4" -> 4 [] c = "5" -> 5 [] c = "6" -> 6 [] c = "7" -> 7
      [] c = "8" -> 8 [] c = "9" -> 9 [] OTHER -> -1

\* str::split('.'): the pieces between the dots
RECURSIVE Split(_)
Split(s) ==
    IF \A i \in 1..Len(s) : s[i] # "."
    THEN <<s>>
    ELSE LET k == CHOOSE i \in 1..Len(s) : s[i] = "." /\ \A j \in 1..(i - 1) : s[j] # "."
         IN <<SubSeq(s, 1, k - 1)>> \o Split(SubSeq(s, k + 1, Len(s)))

\* str::parse::<i32>() of a piece of decimal digits; -1 stands for Err
RECURSIVE ParseInt(_)
ParseInt(s) ==
    IF Len(s) = 0 \/ \E i \in 1..Len(s) : Digit(s[i]) < 0
    THEN -1
    ELSE IF Len(s) = 1 THEN Digit(s[1])
         ELSE 10 * ParseInt(SubSeq(s, 1, Len(s) - 1)) + Digit(s[Len(s)])

\* the test written as one conjunction
Has64_conjoined(version) ==
    LET parts == Split(version)
        major == ParseInt(parts[1])
        minor == ParseInt(parts[2])
    IN major >= 9 /\ minor >= 3

\* the version numbers are far from the limits of i32: parse::<i32> is
\* modelled on the naturals
Has64(version) ==
    LET parts == Split(version)
        major == ParseInt(parts[1])
        minor == ParseInt(parts[2])
    IN major > 9 \/ (major = 9 /\ minor >= 3)

\* ---------------------------------------------------------------- server
\* The large object store behind the remote calls.  s is the server state:
\*   objs[oid] = [exists, data], fds[fd] = [open, oid, mode, pos, snap],
\*   next_oid = the identifier the next lo_create hands out.
\* A descriptor opened with INV_READ alone reads the object as it was when
\* it was opened (snap); one opened with INV_WRITE reads the live object.
Fds == 0..(MaxHandles - 1)
Oids == 1..MaxOids
ClosedFd == [open |-> FALSE, oid |-> 0, mode |-> 0, pos |-> 0, snap |-> <<>>]
NoObject == [exists |-> FALSE, data |-> <<>>]

Ret(s, ok, val, data, err) == [s |-> s, ok |-> ok, val |-> val, data |-> data, err |-> err]
SrvOk(s, val, data) == Ret(s, TRUE, val, data, "")
SrvErr(s, err) == Ret(s, FALSE, 0, <<>>, err)

Exists(s, oid) == oid \in Oids /\ s.objs[oid].exists
FdOpen(s, fd) == fd \in Fds /\ s.fds[fd].open
Writable(s, fd) == (s.fds[fd].mode \div INV_WRITE) % 2 = 1
View(s, fd) == IF Writable(s, fd) THEN s.objs[s.fds[fd].oid].data ELSE s.fds[fd].snap

lo_create(s) ==
    IF s.next_oid > MaxOids
    THEN SrvErr(s, "Db")
    ELSE SrvOk([s EXCEPT !.objs[s.next_oid] = [exists |-> TRUE, data |-> <<>>],
                         !.next_oid = s.next_oid + 1],
               s.next_oid, <<>>)

lo_unlink(s, oid) ==
    IF ~Exists(s, oid)
    THEN SrvErr(s, "UndefinedObject")
    ELSE SrvOk([s EXCEPT !.objs[oid] = NoObject,
                         !.fds = [fd \in Fds |-> IF s.fds[fd].open /\ s.fds[fd].oid = oid
                                                 THEN ClosedFd ELSE s.fds[fd]]],
               1, <<>>)

lo_open(s, oid, mode) ==
    IF ~Exists(s, oid)
    THEN SrvErr(s, "UndefinedObject")
    ELSE IF \A fd \in Fds : s.fds[fd].open
    THEN SrvErr(s, "Db")
    ELSE LET fd == CHOOSE f \in Fds : ~s.fds[f].open /\ \A g \in Fds : g < f => s.fds[g].open
         IN SrvOk([s EXCEPT !.fds[fd] = [open |-> TRUE, oid |-> oid, mode |-> mode, pos |-> 0,
                                         snap |-> IF (mode \div INV_WRITE) % 2 = 1
                                                  THEN <<>> ELSE s.objs[oid].data]],
                  fd, <<>>)

lo_close(s, fd) ==
    IF ~FdOpen(s, fd)
    THEN SrvErr(s, "Db")
    ELSE SrvOk([s EXCEPT !.fds[fd] = ClosedFd], 0, <<>>)

loread(s, fd, len) ==
    IF ~FdOpen(s, fd) \/ len < 0
    THEN SrvErr(s, "Db")
    ELSE LET pos == s.fds[fd].pos
             data == Take(Skip(View(s, fd), pos), len)
         IN SrvOk([s EXCEPT !.fds[fd].pos = pos + Len(data)], Len(data), data)

lowrite(s, fd, bytes) ==
    IF ~FdOpen(s, fd)
    THEN SrvErr(s, "Db")
    ELSE IF ~Writable(s, fd)
    THEN SrvErr(s, "InsufficientPrivilege")
    ELSE IF s.fds[fd].pos + Len(bytes) > MaxObjSize
    THEN SrvErr(s, "Db")
    ELSE LET pos == s.fds[fd].pos
             old == s.objs[s.fds[fd].oid].data
             padded == IF Len(old) < pos THEN old \o Zeros(pos - Len(old)) ELSE old
             new == Take(padded, pos) \o bytes \o Skip(padded, pos + Len(bytes))
         IN SrvOk([s EXCEPT !.objs[s.fds[fd].oid].data = new,
                            !.fds[fd].pos = pos + Len(bytes)],
                  Len(bytes), <<>>)

\* lo_lseek (wide = FALSE: the position is an int4) and lo_lseek64
lo_lseek(s, fd, offset, whence, wide) ==
    IF ~FdOpen(s, fd) \/ whence \notin {0, 1, 2}
    THEN SrvErr(s, "Db")
    ELSE LET new == CASE whence = 0 -> offset
                      [] whence = 1 -> s.fds[fd].pos + offset
                      [] whence = 2 -> Len(View(s, fd)) + offset
         IN IF new < 0 \/ new > MaxObjSize \/ (~wide /\ new > I32Max)
            THEN SrvErr(s, "Db")
            ELSE SrvOk([s EXCEPT !.fds[fd].pos = new], new, <<>>)

\* lo_truncate and lo_truncate64
lo_truncate(s, fd, len) ==
    IF ~FdOpen(s, fd)
    THEN SrvErr(s, "Db")
    ELSE IF ~Writable(s, fd)
    THEN SrvErr(s, "InsufficientPrivilege")
    ELSE IF len < 0 \/ len > MaxObjSize
    THEN SrvErr(s, "Db")
    ELSE LET old == s.objs[s.fds[fd].oid].data
         IN SrvOk([s EXCEPT !.objs[s.fds[fd].oid].data =
                                Take(old, len) \o Zeros(len - Len(old))],
                  0, <<>>)

\* ------------------------------------------------ prepare_cached + execute
\* One statement of the code: self.prepare_cached(sql) and then
\* stmt.query / stmt.execute with the parameters.  f says which of the two
\* remote steps the connection fails (0: neither, 1: the prepare, 2: the
\* execute); a statement that reaches the server may still be rejected by it:
\* r is what the server makes of it.  steps lists the remote steps taken, in
\* order.
PrepareStep(fn, ok) == [kind |-> "prepare", fn |-> fn, args |-> <<>>, ok |-> ok]
ExecuteStep(fn, args, ok) == [kind |-> "execute", fn |-> fn, args |-> args, ok |-> ok]

Statement(s, fn, args, r, f) ==
    IF f = 1
    THEN [r |-> SrvErr(s, "Io"), steps |-> <<PrepareStep(fn, FALSE)>>, prepared |-> FALSE]
    ELSE IF f = 2
    THEN [r |-> SrvErr(s, "Io"),
          steps |-> <<PrepareStep(fn, TRUE), ExecuteStep(fn, args, FALSE)>>,
          prepared |-> TRUE]
    ELSE [r |-> r,
          steps |-> <<PrepareStep(fn, TRUE), ExecuteStep(fn, args, r.ok)>>,
          prepared |-> TRUE]

\* ----------------------------------------------------------------- state
VARIABLES
    server,          \* the large object store: [objs, fds, next_oid]
    server_version,  \* the connection's server_version parameter
    fn_addr,         \* the address of the function i64::max_value in this build
    handles,         \* handles[h]: a LargeObject [fd, has_64, finished] and where
                     \* it is in its life: "none", "live" or "released"
    close_calls,     \* close_calls[h]: lo_close statements executed for handle h
    close_prepared,  \* close_prepared[h]: "none", or how preparing lo_close went
    hist,            \* hist[oid]: what has been written to the object so far
    last             \* the last operation: its inputs, remote steps and result

vars == <<server, server_version, fn_addr, handles, close_calls, close_prepared, hist, last>>

Handles == 1..MaxHandles
NoHandle == [state |-> "none", fd |-> 0, has_64 |-> FALSE, finished |-> FALSE]

\* results of the code's operations: Ok(val) or Err(err)
Ok(val) == [ok |-> TRUE, val |-> val, err |-> ""]
Err(err) == [ok |-> FALSE, val |-> 0, err |-> err]
ResultOf(r) == IF r.ok THEN Ok(r.val) ELSE Err(r.err)

NoArg == [buf |-> <<>>, n |-> 0, from |-> "", oid |-> 0, mode |-> ""]
NoPre == [pos |-> 0, size |-> 0, mode |-> 0, tell |-> -1, data |-> <<>>]
Record(op, h, arg, steps, res, out, runs) ==
    [op |-> op, h |-> h, arg |-> arg, steps |-> steps, res |-> res, out |-> out, runs |-> runs,
     reply |-> <<>>, pre |-> NoPre]

\* what is known of an object's content: nothing ("none"), just created
\* ("fresh"), exactly data written in one piece at offset 0 while nh handles
\* had been opened ("written"), or changed otherwise ("dirty")
Hist(kind, data, nh) == [kind |-> kind, data |-> data, nh |-> nh]

\* the remote steps of a list that executed function fn
Executed(steps, fn) ==
    {i \in 1..Len(steps) : steps[i].kind = "execute" /\ steps[i].fn = fn}

\* ------------------------------------------------- LargeObjectExt (registry)
create_large_object(s, f) ==
    LET st == Statement(s, "lo_create", <<0>>, lo_create(s), f)
    IN [s |-> st.r.s, steps |-> st.steps, res |-> ResultOf(st.r)]

delete_large_object(s, oid, f) ==
    LET st == Statement(s, "lo_unlink", <<oid>>, lo_unlink(s, oid), f)
    IN [s |-> st.r.s, steps |-> st.steps, res |-> IF st.r.ok THEN Ok(0) ELSE Err(st.r.err)]

\* ------------------------------------------------------- open_large_object
\* open that leaves the descriptor lo_open returned out of the handle
open_large_object_fd_dropped(s, version, oid, mode, f) ==
    LET st == Statement(s, "lo_open", <<oid, to_i32(mode)>>, lo_open(s, oid, to_i32(mode)), f)
    IN [s |-> st.r.s, steps |-> st.steps, res |-> ResultOf(st.r),
        hd |-> IF st.r.ok
               THEN [state |-> "live", fd |-> 0, has_64 |-> Has64(version), finished |-> FALSE]
               ELSE NoHandle]

\* open that builds the handle whatever the lo_open statement returned
open_large_object_unchecked(s, version, oid, mode, f) ==
    LET st == Statement(s, "lo_open", <<oid, to_i32(mode)>>, lo_open(s, oid, to_i32(mode)), f)
    IN [s |-> st.r.s, steps |-> st.steps, res |-> Ok(IF st.r.ok THEN st.r.val ELSE -1),
        hd |-> [state |-> "live", fd |-> IF st.r.ok THEN st.r.val ELSE -1,
                has_64 |-> Has64(version), finished |-> FALSE]]

open_large_object(s, version, oid, mode, f) ==
    LET parts == Split(version)
    IN IF Len(parts) < 2 \/ ParseInt(parts[1]) < 0 \/ ParseInt(parts[2]) < 0
       THEN [s |-> s, steps |-> <<>>, res |-> Err("panic"), hd |-> NoHandle]
       ELSE LET st == Statement(s, "lo_open", <<oid, to_i32(mode)>>,
                                lo_open(s, oid, to_i32(mode)), f)
            IN [s |-> st.r.s, steps |-> st.steps, res |-> ResultOf(st.r),
                hd |-> IF st.r.ok
                       THEN [state |-> "live", fd |-> st.r.val, has_64 |-> Has64(version),
                             finished |-> FALSE]
                       ELSE NoHandle]

\* ------------------------------------------------------- io::Read, io::Write
\* <&mut [u8] as io::Write>::write(data) on a buffer of len bytes: copies
\* what fits and returns how many bytes that was
\* the copy reporting the buffer's length instead of the bytes copied
slice_write_full(len, data) == len

slice_write(len, data) == Min(len, Len(data))

\* the capacity asked of the server not bounded by the buffer's length
read_cap_unbounded(len) == AsI32(I32Max)

\* cmp::min(buf.len(), i32::MAX as usize) as i32
read_cap(len) == AsI32(Min(len, I32Max))

\* read that takes a failed statement for the end of the stream
read_lenient(hd, s, len, f) ==
    LET cap == read_cap(len)
        st == Statement(s, "loread", <<hd.fd, cap>>, loread(s, hd.fd, cap), f)
        n == slice_write(len, st.r.data)
    IN [hd |-> hd, s |-> st.r.s, steps |-> st.steps, res |-> Ok(n), out |-> Take(st.r.data, n),
        reply |-> st.r.data]

read(hd, s, len, f) ==
    LET cap == read_cap(len)
        st == Statement(s, "loread", <<hd.fd, cap>>, loread(s, hd.fd, cap), f)
    IN IF ~st.r.ok
       THEN [hd |-> hd, s |-> st.r.s, steps |-> st.steps, res |-> Err(st.r.err), out |-> <<>>,
             reply |-> <<>>]
       ELSE LET n == slice_write(len, st.r.data)
            IN [hd |-> hd, s |-> st.r.s, steps |-> st.steps, res |-> Ok(n), out |-> Take(st.r.data, n),
                reply |-> st.r.data]

\* write reporting the whole buffer as written
write_result_full(buf, cap) == Ok(Len(buf))

write_result(buf, cap) == Ok(cap)

\* the bytes write hands to the server, not cut to the capacity
write_chunk_uncut(buf, cap) == buf

\* &buf[..cap]
write_chunk(buf, cap) == Take(buf, cap)

\* write that does not look at what stmt.execute returned
write_unchecked(hd, s, buf, f) ==
    LET cap == Min(Len(buf), I32Max)
        st == Statement(s, "lowrite", <<hd.fd, write_chunk(buf, cap)>>,
                       lowrite(s, hd.fd, write_chunk(buf, cap)), f)
    IN [hd |-> hd, s |-> st.r.s, steps |-> st.steps, res |-> write_result(buf, cap)]

write(hd, s, buf, f) ==
    LET cap == Min(Len(buf), I32Max)
        st == Statement(s, "lowrite", <<hd.fd, write_chunk(buf, cap)>>,
                       lowrite(s, hd.fd, write_chunk(buf, cap)), f)
    IN IF ~st.r.ok
       THEN [hd |-> hd, s |-> st.r.s, steps |-> st.steps, res |-> Err(st.r.err)]
       ELSE [hd |-> hd, s |-> st.r.s, steps |-> st.steps, res |-> write_result(buf, cap)]

\* flush that closes the handle
flush_closing(hd) == [hd |-> [hd EXCEPT !.finished = TRUE], res |-> Ok(0)]

\* io::Write::flush
flush(hd) == [hd |-> hd, res |-> Ok(0)]

\* the failure input of the statement after this one
Later(f) == IF f > 2 THEN f - 2 ELSE 0
Now(f) == IF f > 2 THEN 0 ELSE f

\* io::Write::write_all over write: write until the buffer is empty
RECURSIVE write_all(_, _, _, _)
write_all(hd, s, buf, f) ==
    IF Len(buf) = 0
    THEN [hd |-> hd, s |-> s, steps |-> <<>>, res |-> Ok(0)]
    ELSE The({IF ~w.res.ok
              THEN w
              ELSE IF w.res.val = 0
              THEN [hd |-> w.hd, s |-> w.s, steps |-> w.steps, res |-> Err("WriteZero")]
              ELSE The({[hd |-> rest.hd, s |-> rest.s, steps |-> w.steps \o rest.steps,
                         res |-> rest.res]
                        : rest \in {write_all(w.hd, w.s, Skip(buf, w.res.val), Later(f))}})
              : w \in {write(hd, s, buf, Now(f))}})

\* io::Read::read_to_end over read: read ReadChunk bytes at a time until a
\* read returns 0
RECURSIVE read_to_end(_, _, _)
read_to_end(hd, s, f) ==
    The({IF ~r.res.ok
         THEN r
         ELSE IF r.res.val = 0
         THEN [hd |-> r.hd, s |-> r.s, steps |-> r.steps, res |-> Ok(0), out |-> <<>>,
               reply |-> <<>>]
         ELSE The({[hd |-> rest.hd, s |-> rest.s, steps |-> r.steps \o rest.steps,
                    res |-> IF rest.res.ok THEN Ok(r.res.val + rest.res.val) ELSE rest.res,
                    out |-> r.out \o rest.out, reply |-> r.reply \o rest.reply]
                   : rest \in {read_to_end(r.hd, r.s, Later(f))}})
         : r \in {read(hd, s, ReadChunk, Now(f))}})

\* ------------------------------------------------------------------ io::Seek
\* `pos <= i64::max_value as u64`: the right-hand side is the function
\* i64::max_value cast to u64, its address, not the value it returns
start_in_range(pos, addr) == pos <= AsU64(addr)

\* `pos <= i32::max_value() as i64` of seek, and the `pos as i32` it guards
seek_fits_i32(pos) == pos <= I32Max

\* Start given the whence code of Current
Whence_from_cursor(from) == IF from = "End" THEN 2 ELSE 1

\* the whence codes of Current and End exchanged
Whence_exchanged(from) == CASE from = "Start" -> 0 [] from = "Current" -> 2 [] from = "End" -> 1

\* SeekFrom::Start => 0, SeekFrom::Current => 1, SeekFrom::End => 2
Whence(from) == CASE from = "Start" -> 0 [] from = "Current" -> 1 [] from = "End" -> 2

seek(hd, s, addr, from, n, f) ==
    IF from = "Start" /\ ~start_in_range(n, addr)
    THEN [hd |-> hd, s |-> s, steps |-> <<>>, res |-> Err("InvalidInput")]
    ELSE LET kind == Whence(from)
             pos == IF from = "Start" THEN AsI64(n) ELSE n
         IN IF hd.has_64
            THEN LET st == Statement(s, "lo_lseek64", <<hd.fd, pos, kind>>,
                                 lo_lseek(s, hd.fd, pos, kind, TRUE), f)
                 IN [hd |-> hd, s |-> st.r.s, steps |-> st.steps,
                     res |-> IF st.r.ok THEN Ok(AsU64(AsI64(st.r.val))) ELSE Err(st.r.err)]
            ELSE IF seek_fits_i32(pos)
            THEN LET st == Statement(s, "lo_lseek", <<hd.fd, AsI32(pos), kind>>,
                                 lo_lseek(s, hd.fd, AsI32(pos), kind, FALSE), f)
                 IN [hd |-> hd, s |-> st.r.s, steps |-> st.steps,
                     res |-> IF st.r.ok THEN Ok(AsU64(AsI32(st.r.val))) ELSE Err(st.r.err)]
            ELSE [hd |-> hd, s |-> s, steps |-> <<>>, res |-> Err("InvalidInput")]

\* ------------------------------------------------------------------ truncate
\* `len <= i32::max_value() as i64` of truncate, and the `len as i32` it guards
truncate_fits_i32(len) == len <= I32Max

\* truncate that does not consult has_64 and always calls lo_truncate64
truncate_wide(hd, s, len, f) ==
    LET st == Statement(s, "lo_truncate64", <<hd.fd, len>>, lo_truncate(s, hd.fd, len), f)
    IN [hd |-> hd, s |-> st.r.s, steps |-> st.steps, res |-> IF st.r.ok THEN Ok(0) ELSE Err(st.r.err)]

truncate(hd, s, len, f) ==
    IF hd.has_64
    THEN LET st == Statement(s, "lo_truncate64", <<hd.fd, len>>, lo_truncate(s, hd.fd, len), f)
         IN [hd |-> hd, s |-> st.r.s, steps |-> st.steps,
             res |-> IF st.r.ok THEN Ok(0) ELSE Err(st.r.err)]
    ELSE IF truncate_fits_i32(len)
    THEN LET st == Statement(s, "lo_truncate", <<hd.fd, AsI32(len)>>,
                         lo_truncate(s, hd.fd, AsI32(len)), f)
         IN [hd |-> hd, s |-> st.r.s, steps |-> st.steps,
             res |-> IF st.r.ok THEN Ok(0) ELSE Err(st.r.err)]
    ELSE [hd |-> hd, s |-> s, steps |-> <<>>, res |-> Err("InvalidInput")]

\* lo.truncate(len); lo.seek(SeekFrom::Start(0)); lo.read_to_end(&mut buf):
\* each call is made when the one before returned Ok
truncate_read_back(hd, s, addr, len, f) ==
    The({IF ~t.res.ok
         THEN [hd |-> t.hd, s |-> t.s, steps |-> t.steps, res |-> t.res, out |-> <<>>]
         ELSE The({IF ~k.res.ok
                   THEN [hd |-> k.hd, s |-> k.s, steps |-> t.steps \o k.steps, res |-> k.res,
                         out |-> <<>>]
                   ELSE The({[hd |-> r.hd, s |-> r.s, steps |-> t.steps \o k.steps \o r.steps,
                              res |-> r.res, out |-> r.out]
                             : r \in {read_to_end(k.hd, k.s, Later(Later(f)))}})
                   : k \in {seek(t.hd, t.s, addr, "Start", 0, Now(Later(f)))}})
         : t \in {truncate(hd, s, len, Now(f))}})

\* LargeObject::fd(&self)
fd_of(hd) == hd.fd

\* ------------------------------------------------------------ finish, drop
\* finish_inner without its `if self.finished` guard
finish_inner_unguarded(hd, s, f) ==
    LET st == Statement(s, "lo_close", <<hd.fd>>, lo_close(s, hd.fd), f)
    IN [hd |-> [hd EXCEPT !.finished = TRUE], s |-> st.r.s, steps |-> st.steps,
        res |-> IF st.r.ok THEN Ok(0) ELSE Err(st.r.err), was_finished |-> hd.finished]

finish_inner(hd, s, f) ==
    IF hd.finished
    THEN [hd |-> hd, s |-> s, steps |-> <<>>, res |-> Ok(0), was_finished |-> TRUE]
    ELSE LET st == Statement(s, "lo_close", <<hd.fd>>, lo_close(s, hd.fd), f)
         IN [hd |-> [hd EXCEPT !.finished = TRUE], s |-> st.r.s, steps |-> st.steps,
             res |-> IF st.r.ok THEN Ok(0) ELSE Err(st.r.err), was_finished |-> FALSE]

\* drop handing on what finish_inner returned
drop_result_propagated(inner) == inner

\* `let _ = self.finish_inner();`: the result is dropped, drop returns ()
drop_result(inner) == Ok(0)

\* drop that releases the handle without running the close logic
drop_without_close(hd, s, f) ==
    [hd |-> [hd EXCEPT !.state = "released"], s |-> s, steps |-> <<>>, res |-> Ok(0),
     runs |-> <<>>]

drop(hd, s, f) ==
    LET run == finish_inner(hd, s, f)
    IN [hd |-> [run.hd EXCEPT !.state = "released"], s |-> run.s, steps |-> run.steps,
        res |-> drop_result(run.res), runs |-> <<run>>]

\* finish(mut self): finish_inner, then self goes out of scope and is dropped
\* finish returning success whatever finish_inner returned
finish_result_swallowed(inner) == Ok(0)

finish_result(inner) == inner

finish(hd, s, f, g) ==
    LET run == finish_inner(hd, s, f)
        end == drop(run.hd, run.s, g)
    IN [hd |-> end.hd, s |-> end.s, steps |-> run.steps \o end.steps,
        res |-> finish_result(run.res), runs |-> <<run>> \o end.runs]

RunView(run) ==
    [was_finished |-> run.was_finished, steps |-> run.steps, res |-> run.res]

\* how the first preparation of lo_close went, over the runs of the close logic
Prepared(runs, before) ==
    IF before # "none" THEN before
    ELSE IF \E i \in 1..Len(runs) : Len(runs[i].steps) > 0
    THEN LET i == CHOOSE j \in 1..Len(runs) :
                     Len(runs[j].steps) > 0 /\ \A k \in 1..(j - 1) : Len(runs[k].steps) = 0
         IN IF runs[i].steps[1].ok THEN "ok" ELSE "failed"
    ELSE "none"

\* --------------------------------------------------------------- actions
Fail == 0..2

CreateObject ==
    /\ server.next_oid <= MaxOids
    /\ \E f \in Fail :
        LET r == create_large_object(server, f)
        IN /\ server' = r.s
           /\ hist' = IF r.res.ok THEN [hist EXCEPT ![r.res.val] = Hist("fresh", <<>>, 0)] ELSE hist
           /\ last' = Record("create", 0, NoArg, r.steps, r.res, <<>>, <<>>)
    /\ UNCHANGED <<server_version, fn_addr, handles, close_calls, close_prepared>>

DeleteObject ==
    /\ \E oid \in {0} \cup Oids, f \in Fail :
        LET r == delete_large_object(server, oid, f)
        IN /\ server' = r.s
           /\ hist' = IF r.res.ok THEN [hist EXCEPT ![oid] = Hist("none", <<>>, 0)] ELSE hist
           /\ last' = Record("delete", 0, [NoArg EXCEPT !.oid = oid], r.steps, r.res, <<>>, <<>>)
    /\ UNCHANGED <<server_version, fn_addr, handles, close_calls, close_prepared>>

Open ==
    /\ \E h \in Handles :
        /\ handles[h].state = "none"
        /\ \A g \in Handles : g < h => handles[g].state # "none"
        /\ \E oid \in {0} \cup Oids, mode \in Modes, f \in Fail :
            LET r == open_large_object(server, server_version, oid, mode, f)
            IN /\ server' = r.s
               /\ handles' = [handles EXCEPT ![h] = r.hd]
               /\ last' = Record("open", IF r.res.ok THEN h ELSE 0,
                                 [NoArg EXCEPT !.oid = oid, !.mode = mode],
                                 r.steps, r.res, <<>>, <<>>)
    /\ UNCHANGED <<server_version, fn_addr, close_calls, close_prepared, hist>>

Finish ==
    /\ \E h \in Handles, f \in Fail, g \in Fail :
        /\ handles[h].state = "live"
        /\ LET r == finish(handles[h], server, f, g)
           IN /\ server' = r.s
              /\ handles' = [handles EXCEPT ![h] = r.hd]
              /\ close_calls' = [close_calls EXCEPT
                                   ![h] = @ + Cardinality(Executed(r.steps, "lo_close"))]
              /\ close_prepared' = [close_prepared EXCEPT ![h] = Prepared(r.runs, @)]
              /\ last' = Record("finish", h, NoArg, r.steps, r.res, <<>>,
                                [i \in 1..Len(r.runs) |-> RunView(r.runs[i])])
    /\ UNCHANGED <<server_version, fn_addr, hist>>

Drop ==
    /\ \E h \in Handles, f \in Fail :
        /\ handles[h].state = "live"
        /\ LET r == drop(handles[h], server, f)
           IN /\ server' = r.s
              /\ handles' = [handles EXCEPT ![h] = r.hd]
              /\ close_calls' = [close_calls EXCEPT
                                   ![h] = @ + Cardinality(Executed(r.steps, "lo_close"))]
              /\ close_prepared' = [close_prepared EXCEPT ![h] = Prepared(r.runs, @)]
              /\ last' = Record("drop", h, NoArg, r.steps, r.res, <<>>,
                                [i \in 1..Len(r.runs) |-> RunView(r.runs[i])])
    /\ UNCHANGED <<server_version, fn_addr, hist>>

\* what the handle's descriptor looks like before an operation, and the
\* position a seek on this handle returned if that was the operation before
Pre(h) ==
    LET d == fd_of(handles[h])
    IN IF FdOpen(server, d)
       THEN [pos |-> server.fds[d].pos, size |-> Len(View(server, d)),
             mode |-> server.fds[d].mode,
             tell |-> IF last.op = "seek" /\ last.h = h /\ last.res.ok
                      THEN last.res.val ELSE -1,
             data |-> <<>>]
       ELSE NoPre

\* the same with the content the handle sees before the operation
PreContent(h) ==
    IF FdOpen(server, fd_of(handles[h]))
    THEN [Pre(h) EXCEPT !.data = View(server, fd_of(handles[h]))]
    ELSE NoPre

ObjectOf(h) == IF FdOpen(server, fd_of(handles[h])) THEN server.fds[fd_of(handles[h])].oid ELSE 0

\* some lowrite or truncate among the steps changed the object
Changed(steps) ==
    \E i \in 1..Len(steps) :
        /\ steps[i].kind = "execute" /\ steps[i].ok
        /\ steps[i].fn \in {"lowrite", "lo_truncate", "lo_truncate64"}

Dirty(h, steps) ==
    IF ObjectOf(h) \in Oids /\ Changed(steps)
    THEN [hist EXCEPT ![ObjectOf(h)] = Hist("dirty", <<>>, 0)]
    ELSE hist

Opened == Cardinality({h \in Handles : handles[h].state # "none"})

BufLens == 0..MaxBuf
Offsets == {I64Min, I32Min - 1, I32Min, -1, 0, 1, I32Max, I32Max + 1}
Starts == {0, 1, I32Max, I32Max + 1, I64Max, I64Max + 1, U64Max}
Lengths == {I64Min, I32Min - 1, -1, 0, 1, 2, I32Max, I32Max + 1, I64Max}
\* write_all takes at most two statements for a buffer of MaxBuf bytes,
\* read_to_end one for every ReadChunk bytes and one more
FailWrite == 0..4
FailRead == 0..(2 * (MaxObjSize \div ReadChunk + 1))

Read ==
    /\ \E h \in Handles, len \in BufLens, f \in Fail :
        /\ handles[h].state = "live"
        /\ LET r == read(handles[h], server, len, f)
           IN /\ server' = r.s
              /\ handles' = [handles EXCEPT ![h] = r.hd]
              /\ last' = [Record("read", h, [NoArg EXCEPT !.n = len], r.steps, r.res, r.out, <<>>)
                            EXCEPT !.reply = r.reply, !.pre = Pre(h)]
    /\ UNCHANGED <<server_version, fn_addr, close_calls, close_prepared, hist>>

ReadToEnd ==
    /\ \E h \in Handles, f \in FailRead :
        /\ handles[h].state = "live"
        /\ LET r == read_to_end(handles[h], server, f)
           IN /\ server' = r.s
              /\ handles' = [handles EXCEPT ![h] = r.hd]
              /\ last' = [Record("read_to_end", h, NoArg, r.steps, r.res, r.out, <<>>)
                            EXCEPT !.reply = r.reply, !.pre = Pre(h)]
    /\ UNCHANGED <<server_version, fn_addr, close_calls, close_prepared, hist>>

Write ==
    /\ \E h \in Handles, buf \in Buffers, f \in Fail :
        /\ handles[h].state = "live"
        /\ LET r == write(handles[h], server, buf, f)
           IN /\ server' = r.s
              /\ handles' = [handles EXCEPT ![h] = r.hd]
              /\ hist' = Dirty(h, r.steps)
              /\ last' = [Record("write", h, [NoArg EXCEPT !.buf = buf], r.steps, r.res, <<>>, <<>>)
                            EXCEPT !.pre = Pre(h)]
    /\ UNCHANGED <<server_version, fn_addr, close_calls, close_prepared>>

WriteAll ==
    /\ \E h \in Handles, buf \in Buffers, f \in FailWrite :
        /\ handles[h].state = "live"
        /\ LET r == write_all(handles[h], server, buf, f)
               o == ObjectOf(h)
           IN /\ server' = r.s
              /\ handles' = [handles EXCEPT ![h] = r.hd]
              /\ hist' = IF o \in Oids /\ r.res.ok /\ hist[o].kind = "fresh" /\ Pre(h).pos = 0
                         THEN [hist EXCEPT ![o] = Hist("written", buf, Opened)]
                         ELSE Dirty(h, r.steps)
              /\ last' = [Record("write_all", h, [NoArg EXCEPT !.buf = buf], r.steps, r.res,
                                 <<>>, <<>>)
                            EXCEPT !.pre = Pre(h)]
    /\ UNCHANGED <<server_version, fn_addr, close_calls, close_prepared>>

Flush ==
    /\ \E h \in Handles :
        /\ handles[h].state = "live"
        /\ LET r == flush(handles[h])
           IN /\ handles' = [handles EXCEPT ![h] = r.hd]
              /\ last' = [Record("flush", h, NoArg, <<>>, r.res, <<>>, <<>>)
                            EXCEPT !.pre = Pre(h)]
    /\ UNCHANGED <<server, server_version, fn_addr, close_calls, close_prepared, hist>>

\* lo.fd(): a method of &self
Fd ==
    /\ \E h \in Handles :
        /\ handles[h].state = "live"
        /\ last' = [Record("fd", h, NoArg, <<>>, Ok(fd_of(handles[h])), <<>>, <<>>)
                      EXCEPT !.pre = Pre(h)]
    /\ UNCHANGED <<server, server_version, fn_addr, handles, close_calls, close_prepared, hist>>

Seek ==
    /\ \E h \in Handles, from \in {"Start", "Current", "End"}, f \in Fail :
        /\ handles[h].state = "live"
        /\ \E n \in (IF from = "Start" THEN Starts ELSE Offsets) :
            LET r == seek(handles[h], server, fn_addr, from, n, f)
            IN /\ server' = r.s
               /\ handles' = [handles EXCEPT ![h] = r.hd]
               /\ last' = [Record("seek", h, [NoArg EXCEPT !.from = from, !.n = n],
                                  r.steps, r.res, <<>>, <<>>)
                             EXCEPT !.pre = Pre(h)]
    /\ UNCHANGED <<server_version, fn_addr, close_calls, close_prepared, hist>>

Truncate ==
    /\ \E h \in Handles, len \in Lengths, f \in Fail :
        /\ handles[h].state = "live"
        /\ LET r == truncate(handles[h], server, len, f)
           IN /\ server' = r.s
              /\ handles' = [handles EXCEPT ![h] = r.hd]
              /\ hist' = Dirty(h, r.steps)
              /\ last' = [Record("truncate", h, [NoArg EXCEPT !.n = len], r.steps, r.res,
                                 <<>>, <<>>)
                            EXCEPT !.pre = Pre(h)]
    /\ UNCHANGED <<server_version, fn_addr, close_calls, close_prepared>>

\* truncate, rewind and read back: a failure of the truncate, of the seek
\* or of the first read
FailReadBack == 0..6

TruncateReadBack ==
    /\ \E h \in Handles, len \in Lengths, f \in FailReadBack :
        /\ handles[h].state = "live"
        /\ LET r == truncate_read_back(handles[h], server, fn_addr, len, f)
           IN /\ server' = r.s
              /\ handles' = [handles EXCEPT ![h] = r.hd]
              /\ hist' = Dirty(h, r.steps)
              /\ last' = [Record("truncate_read_back", h, [NoArg EXCEPT !.n = len], r.steps,
                                 r.res, r.out, <<>>)
                            EXCEPT !.pre = PreContent(h)]
    /\ UNCHANGED <<server_version, fn_addr, close_calls, close_prepared>>

\* ------------------------------------------------------------------ spec
\* where a build may place the function i64::max_value: below 2^31 or above
FnAddrs == {I32Max, I64Max - 1}

Init ==
    /\ server = [objs |-> [oid \in Oids |-> NoObject],
                 fds |-> [fd \in Fds |-> ClosedFd],
                 next_oid |-> 1]
    /\ server_version \in Versions
    /\ fn_addr \in FnAddrs
    /\ handles = [h \in Handles |-> NoHandle]
    /\ close_calls = [h \in Handles |-> 0]
    /\ close_prepared = [h \in Handles |-> "none"]
    /\ hist = [oid \in Oids |-> Hist("none", <<>>, 0)]
    /\ last = Record("init", 0, NoArg, <<>>, Ok(0), <<>>, <<>>)

Next ==
    \/ CreateObject
    \/ DeleteObject
    \/ Open
    \/ Finish
    \/ Drop
    \/ Read
    \/ ReadToEnd
    \/ Write
    \/ WriteAll
    \/ Flush
    \/ Seek
    \/ Truncate
    \/ TruncateReadBack
    \/ Fd

Spec == Init /\ [][Next]_vars

\* The operations below the seeks consult neither the server version nor
\* the address of i64::max_value: their specifications fix both.
InitOne ==
    /\ Init
    /\ server_version = <<"9", ".", "3">>
    /\ fn_addr = I32Max

\* A server without and a server with the 64-bit calls
InitSeek ==
    /\ Init
    /\ server_version \in {<<"9", ".", "2", ".", "4">>, <<"9", ".", "3">>}

\* Any server version, one build
InitVersion ==
    /\ Init
    /\ fn_addr = I32Max

\* The handle's life alone: objects, open, finish, drop
NextClose ==
    \/ CreateObject
    \/ DeleteObject
    \/ Open
    \/ Finish
    \/ Drop

SpecClose == InitOne /\ [][NextClose]_vars

\* One object and one handle that is read, written and truncated
NextStream ==
    \/ (server.next_oid = 1 /\ CreateObject)
    \/ (Opened = 0 /\ Open)
    \/ Write
    \/ Read
    \/ Truncate

SpecStream == InitOne /\ [][NextStream]_vars

\* One object and one handle that is moved and truncated
NextSeek ==
    \/ (server.next_oid = 1 /\ CreateObject)
    \/ (Opened = 0 /\ Open)
    \/ Seek
    \/ Truncate

SpecSeek == InitSeek /\ [][NextSeek]_vars

\* One object, a writer and a reader: handles that write whole buffers and
\* read whole objects
NextRoundTrip ==
    \/ (server.next_oid = 1 /\ CreateObject)
    \/ (Opened <= 1 /\ Open)
    \/ WriteAll
    \/ ReadToEnd

SpecRoundTrip == InitOne /\ [][NextRoundTrip]_vars

\* One object and one handle opened in Write mode that writes, reads and
\* seeks inside the object (test_seek_tell)
NextCursor ==
    \/ (server.next_oid = 1 /\ CreateObject)
    \/ (Opened = 0 /\ Open /\ last'.arg.mode = "Write")
    \/ Write
    \/ Read
    \/ (Seek /\ last'.arg.n \in I32Min..I32Max)

SpecCursor == InitOne /\ [][NextCursor]_vars

\* One object and one handle opened in Write mode that writes, truncates
\* and reads the object back (test_truncate)
NextTruncate ==
    \/ (server.next_oid = 1 /\ CreateObject)
    \/ (Opened = 0 /\ Open /\ last'.arg.mode = "Write")
    \/ Write
    \/ TruncateReadBack

SpecTruncate == InitOne /\ [][NextTruncate]_vars

\* One object and two handles in any modes that write (test_write_with_read_fd
\* after the writer of test_write_read)
NextWriters ==
    \/ (server.next_oid = 1 /\ CreateObject)
    \/ (Opened <= 1 /\ Open)
    \/ Write

SpecWriters == InitOne /\ [][NextWriters]_vars

\* One object opened once, on a server of any version
NextVersion ==
    \/ (server.next_oid = 1 /\ CreateObject)
    \/ (Opened = 0 /\ Open)

SpecVersion == InitVersion /\ [][NextVersion]_vars

\* One object and two handles on it, opened in Write mode as in
\* test_seek_tell, each reading one byte, writing one byte, moving to or by
\* one byte, and closed
NextShared ==
    \/ (server.next_oid = 1 /\ CreateObject)
    \/ (Opened <= 1 /\ Open /\ last'.arg.mode = "Write")
    \/ (Read /\ last'.arg.n = 1)
    \/ (Write /\ last'.arg.buf = <<1>>)
    \/ (Seek /\ last'.arg.from # "End" /\ last'.arg.n = 1)
    \/ Finish

SpecShared == InitOne /\ [][NextShared]_vars

\* One object that is created, opened once and deleted, and one handle that
\* reads, writes, seeks and truncates by one byte, on a connection that may
\* fail every statement and a server that may reject it
NextFailures ==
    \/ (server.next_oid = 1 /\ CreateObject)
    \/ DeleteObject
    \/ (Opened = 0 /\ Open)
    \/ (Read /\ last'.arg.n = 1)
    \/ (Write /\ last'.arg.buf = <<1>>)
    \/ (Seek /\ last'.arg.n \in {-1, 1})
    \/ (Truncate /\ last'.arg.n \in {-1, 1})

SpecFailures == InitSeek /\ [][NextFailures]_vars

\* One object and one handle through its whole life: opened, used by every
\* method a byte at a time, finished or dropped
NextHandle ==
    \/ (server.next_oid = 1 /\ CreateObject)
    \/ (Opened = 0 /\ Open)
    \/ (Read /\ last'.arg.n = 1)
    \/ (Write /\ last'.arg.buf = <<1>>)
    \/ Flush
    \/ (Seek /\ last'.arg.n \in {-1, 1})
    \/ (Truncate /\ last'.arg.n \in {-1, 1})
    \/ Fd
    \/ Finish
    \/ Drop

SpecHandle == InitSeek /\ [][NextHandle]_vars

\* ---------------------------------------------------------------- claims
LastRun(i) == last.runs[i]
CloseOps == {"finish", "drop"}

\* C1: once the close logic has run on a handle its closed flag stays true;
\* a run of the close logic on an already closed handle (the drop after an
\* explicit finish) issues no remote step and returns success; over finish
\* and drop at most one remote close call is issued per handle.
C1_CloseAtMostOnce ==
    /\ [](/\ \A h \in Handles : close_calls[h] <= 1
          /\ last.op \in CloseOps =>
                /\ handles[last.h].finished
                /\ \A i \in 1..Len(last.runs) :
                      LastRun(i).was_finished =>
                          LastRun(i).steps = <<>> /\ LastRun(i).res = Ok(0))
    /\ [][\A h \in Handles : handles[h].finished => handles'[h].finished]_vars

C1_Witness ==
    /\ last.op = "finish"
    /\ Len(last.runs) = 2
    /\ LastRun(2).was_finished
    /\ close_calls[last.h] = 1

\* C2 as stated: every released handle has had its remote close call issued
\* exactly once, also when a remote step of the close path failed.
C2_ExactlyOnce ==
    \A h \in Handles : handles[h].state = "released" => close_calls[h] = 1

\* C2 amended: a released handle has had its remote close call issued at
\* most once, and exactly once if and only if preparing the close statement
\* succeeded (whether or not the call itself then failed); the close path
\* has run on every released handle.
C2_OncePrepared ==
    \A h \in Handles :
        handles[h].state = "released" =>
            /\ close_prepared[h] \in {"ok", "failed"}
            /\ close_calls[h] = (IF close_prepared[h] = "ok" THEN 1 ELSE 0)

C2_Witness ==
    /\ last.op = "drop"
    /\ handles[last.h].state = "released"
    /\ close_calls[last.h] = 1
    /\ ~LastRun(1).res.ok

\* C3: drop completes normally whatever preparing or executing the remote
\* close call returned; the error is discarded.
C3_DropSwallows ==
    last.op = "drop" =>
        /\ last.res = Ok(0)
        /\ handles[last.h].state = "released"

C3_Witness ==
    /\ last.op = "drop"
    /\ ~LastRun(1).res.ok
    /\ LastRun(1).res.err = "Db"
    /\ last.res.ok

\* C4: finish on a handle that is not yet closed returns the failure of the
\* close path (the preparation or the remote close call) and returns
\* success only when the remote close call succeeded.
C4_FinishReturnsFailure ==
    last.op = "finish" =>
        LET run == LastRun(1)
            closed == \E i \in Executed(run.steps, "lo_close") : run.steps[i].ok
        IN /\ ~run.was_finished
           /\ last.res.ok <=> closed
           /\ last.res = run.res
           /\ ~last.res.ok => last.res.err \in {"Io", "Db"}

C4_Witness ==
    /\ last.op = "finish"
    /\ ~last.res.ok
    /\ last.res.err = "Db"
    /\ Len(LastRun(1).steps) = 2

\* the bytes the successful lowrite steps of the last operation carried
RECURSIVE Sent(_)
Sent(steps) ==
    IF Len(steps) = 0 THEN <<>>
    ELSE LET st == steps[Len(steps)]
             before == Sent(SubSeq(steps, 1, Len(steps) - 1))
         IN IF st.kind = "execute" /\ st.fn = "lowrite" /\ st.ok
            THEN before \o st.args[2] ELSE before

\* C5 as stated: one write call that returns success has transmitted the
\* entire buffer, in chunks no larger than the per-call limit.
C5_WriteWholeBuffer ==
    (last.op = "write" /\ last.res.ok) =>
        /\ Sent(last.steps) = last.arg.buf
        /\ \A i \in Executed(last.steps, "lowrite") : Len(last.steps[i].args[2]) <= I32Max

\* C5 amended: one write call issues at most one remote write, carrying the
\* first min(length, limit) bytes of the buffer, and either returns an error
\* or returns the number of bytes of that chunk after the server accepted
\* it; the count is the buffer's length exactly when the buffer is no
\* longer than the limit, so a prefix is never reported as the whole buffer.
C5_WritePrefixCounted ==
    last.op = "write" =>
        LET buf == last.arg.buf
            chunk == Take(buf, Min(Len(buf), I32Max))
            sent == Executed(last.steps, "lowrite")
        IN /\ Cardinality(sent) <= 1
           /\ \A i \in sent : last.steps[i].args[2] = chunk /\ Len(chunk) <= I32Max
           /\ last.res.ok =>
                /\ Sent(last.steps) = chunk
                /\ last.res.val = Len(chunk)
                /\ (last.res.val = Len(buf)) <=> (Len(buf) <= I32Max)

C5_Witness ==
    /\ last.op = "write"
    /\ last.res.ok
    /\ Len(last.arg.buf) > I32Max
    /\ last.res.val = I32Max

\* C6: a read that reaches the server returns the number of bytes copied
\* into the buffer, which are the bytes the server returned and never more
\* than the buffer holds; when the server returns no bytes, read returns 0
\* with success.
C6_ReadCount ==
    (last.op = "read" /\ Len(last.steps) = 2 /\ last.steps[2].ok) =>
        /\ last.res.ok
        /\ last.res.val = Len(last.out)
        /\ last.out = last.reply
        /\ last.res.val <= last.arg.n
        /\ last.steps[2].args[2] <= last.arg.n
        /\ last.reply = <<>> => last.res = Ok(0)

C6_Witness ==
    /\ last.op = "read"
    /\ last.arg.n > 0
    /\ Len(last.steps) = 2 /\ last.steps[2].ok
    /\ last.reply = <<>>
    /\ last.pre.size > 0
    /\ last.res = Ok(0)

\* the offset of the last seek or truncate lies in the signed 32-bit range
InI32(n) == I32Min <= n /\ n <= I32Max
InI64(n) == I64Min <= n /\ n <= I64Max

\* C7 as stated: on a handle that is not 64-bit capable a seek whose offset
\* is outside the signed 32-bit range fails with an invalid-argument error
\* without a remote call, and an offset that reaches the server reaches it
\* unchanged.
C7_SeekRange32 ==
    (last.op = "seek" /\ ~handles[last.h].has_64) =>
        /\ ~InI32(last.arg.n) => last.res = Err("InvalidInput") /\ last.steps = <<>>
        /\ \A i \in Executed(last.steps, "lo_lseek") : last.steps[i].args[2] = last.arg.n

\* C8 as stated: on a handle that is not 64-bit capable a truncate whose
\* length is outside the signed 32-bit range fails with an invalid-argument
\* error without a remote call, and a length that reaches the server reaches
\* it unchanged.
C8_TruncateRange32 ==
    (last.op = "truncate" /\ ~handles[last.h].has_64) =>
        /\ ~InI32(last.arg.n) => last.res = Err("InvalidInput") /\ last.steps = <<>>
        /\ \A i \in Executed(last.steps, "lo_truncate") : last.steps[i].args[2] = last.arg.n

\* C9: after one write_all of b at the start of a freshly created object,
\* a handle opened afterwards in Read mode that reads from its start to the
\* end of the stream gets exactly b.
C9_RoundTrip ==
    (/\ last.op = "read_to_end"
     /\ last.res.ok
     /\ last.pre.mode = to_i32("Read")
     /\ last.pre.pos = 0
     /\ ObjectOf(last.h) \in Oids
     /\ hist[ObjectOf(last.h)].kind = "written"
     /\ last.h > hist[ObjectOf(last.h)].nh) =>
        /\ last.out = hist[ObjectOf(last.h)].data
        /\ last.res.val = Len(hist[ObjectOf(last.h)].data)

C9_Witness ==
    /\ last.op = "read_to_end"
    /\ last.res.ok
    /\ last.pre.mode = to_i32("Read")
    /\ last.pre.pos = 0
    /\ ObjectOf(last.h) \in Oids
    /\ hist[ObjectOf(last.h)].kind = "written"
    /\ last.h > hist[ObjectOf(last.h)].nh
    /\ Len(hist[ObjectOf(last.h)].data) > I32Max
    /\ last.out = hist[ObjectOf(last.h)].data

\* C10: a successful seek with an offset inside the handle's addressing
\* range returns the resulting absolute position, which is where the cursor
\* then stands; a successful tell (seek(Current(0))) right after a
\* successful seek returns the position that seek returned and leaves the
\* cursor where it was.
C10_SeekTell ==
    (/\ last.op = "seek"
     /\ last.res.ok
     /\ IF handles[last.h].has_64 THEN InI64(last.arg.n) ELSE InI32(last.arg.n)) =>
        LET target == CASE last.arg.from = "Start" -> last.arg.n
                        [] last.arg.from = "Current" -> last.pre.pos + last.arg.n
                        [] last.arg.from = "End" -> last.pre.size + last.arg.n
            cursor == server.fds[fd_of(handles[last.h])].pos
        IN /\ last.res.val = target
           /\ cursor = target
           /\ (last.arg.from = "Current" /\ last.arg.n = 0 /\ last.pre.tell >= 0) =>
                 last.res.val = last.pre.tell /\ cursor = last.pre.pos

C10_Witness ==
    /\ last.op = "seek"
    /\ last.res.ok
    /\ last.arg.from = "Current"
    /\ last.arg.n = 0
    /\ last.pre.tell > 0
    /\ last.res.val = last.pre.tell

\* the last operation / the next one is a successful tell, seek(Current(0)),
\* on handle h
Tell(l, h) ==
    l.op = "seek" /\ l.h = h /\ l.arg.from = "Current" /\ l.arg.n = 0 /\ l.res.ok

\* what a tell returns right after a write to an empty object, and right
\* after a read
TellAfterData ==
    /\ (last.op = "write" /\ last.res.ok /\ last.pre.pos = 0 /\ last.pre.size = 0
          /\ Tell(last', last.h)) =>
            last'.res.val = last.res.val /\ last.res.val = Len(Sent(last.steps))
    /\ (last.op = "read" /\ last.res.ok /\ Tell(last', last.h)) =>
            last'.res.val = last.pre.pos + last.res.val

\* C11: the cursor follows the data operations.  A tell right after a
\* successful write of n bytes at the start of an empty object returns n;
\* a successful read of k bytes returns the k bytes that stood at the cursor
\* and leaves the cursor k further, which is what a tell right after it
\* returns, k more than a tell right before it; a successful seek(End, -d)
\* with 0 <= d <= size returns size - d, and a successful seek(Current, d)
\* whose target p + d is a position (not negative) returns p + d.
C11_CursorTracks ==
    /\ [](/\ (last.op = "read" /\ last.res.ok) =>
                LET fdn == fd_of(handles[last.h])
                IN /\ server.fds[fdn].pos = last.pre.pos + last.res.val
                   /\ last.out = Take(Skip(View(server, fdn), last.pre.pos), last.res.val)
                   /\ (last.pre.tell >= 0 => last.pre.tell = last.pre.pos)
          /\ (last.op = "seek" /\ last.res.ok /\ last.arg.from = "End"
                 /\ -last.arg.n \in 0..last.pre.size) =>
                last.res.val = last.pre.size + last.arg.n
          /\ (last.op = "seek" /\ last.res.ok /\ last.arg.from = "Current"
                 /\ last.pre.pos + last.arg.n >= 0) =>
                last.res.val = last.pre.pos + last.arg.n)
    /\ [][TellAfterData]_vars

\* a read of one byte from the middle of an object, right after a seek
C11_Witness ==
    /\ last.op = "read"
    /\ last.res = Ok(1)
    /\ last.pre.tell = 1
    /\ last.pre.size > 1

\* C12: truncate(n) with n >= 0, then seek(Start(0)), then read to the end
\* of the stream, all successful, on an object of content c: the bytes read
\* are the first n bytes of c when n <= |c| and c followed by n - |c| zero
\* bytes when n > |c|, and they are the object's content afterwards.
C12_TruncateReadBack ==
    (last.op = "truncate_read_back" /\ last.res.ok /\ last.arg.n >= 0) =>
        LET c == last.pre.data
            n == last.arg.n
        IN /\ last.out = (IF n <= Len(c) THEN Take(c, n) ELSE c \o Zeros(n - Len(c)))
           /\ Len(last.out) = n
           /\ View(server, fd_of(handles[last.h])) = last.out

\* an object of at least one byte grown by truncate
C12_Witness ==
    /\ last.op = "truncate_read_back"
    /\ last.res.ok
    /\ Len(last.pre.data) > 0
    /\ last.arg.n > Len(last.pre.data)
    /\ last.out = last.pre.data \o Zeros(last.arg.n - Len(last.pre.data))

\* the next operation is a write through a handle opened in Read mode
ReadModeWrite(l) == l.op = "write" /\ l.pre.mode = to_i32("Read")

\* C13: a write through a handle opened in Read mode never returns success
\* and never changes an object.  Nothing is checked locally: the first thing
\* write does is prepare the lowrite statement, and once that is prepared
\* the call is sent with the descriptor and the bytes; unless the connection
\* itself fails, the error returned is the rejection of the server.
C13_ReadModeWriteRejected ==
    /\ [](ReadModeWrite(last) =>
            /\ ~last.res.ok
            /\ Len(last.steps) >= 1
            /\ last.steps[1].kind = "prepare" /\ last.steps[1].fn = "lowrite"
            /\ last.steps[1].ok =>
                  /\ Len(last.steps) = 2
                  /\ last.steps[2] = ExecuteStep("lowrite",
                                                 <<fd_of(handles[last.h]),
                                                   Take(last.arg.buf, I32Max)>>, FALSE)
            /\ last.res.err # "Io" =>
                  /\ Len(last.steps) = 2
                  /\ last.res.err = "InsufficientPrivilege")
    /\ [][ReadModeWrite(last') => server'.objs = server.objs]_vars

\* the server rejects a write to an object that has content
C13_Witness ==
    /\ ReadModeWrite(last)
    /\ last.res = Err("InsufficientPrivilege")
    /\ Len(last.arg.buf) > 0
    /\ Len(server.objs[ObjectOf(last.h)].data) > 0

\* the error of an operation on an identifier that names no object: the
\* server's undefined-object error, or the connection's own failure
NotFound(l) ==
    /\ ~l.res.ok
    /\ l.res.err \in {"UndefinedObject", "Io"}
    /\ l.res.err = "UndefinedObject" => (Len(l.steps) = 2 /\ l.steps[1].ok)
    /\ Len(l.steps) >= 1

\* delete and open of an identifier that does not exist
BogusFails ==
    /\ (last'.op = "delete" /\ ~Exists(server, last'.arg.oid)) =>
            NotFound(last') /\ server' = server
    /\ (last'.op = "open" /\ ~Exists(server, last'.arg.oid)) =>
            /\ NotFound(last')
            /\ last'.h = 0
            /\ server' = server /\ handles' = handles /\ close_calls' = close_calls

\* C14: delete_large_object and open_large_object of an identifier that
\* does not exist fail, with the server's undefined-object error whenever
\* the statement reached the server; a failed open leaves no handle and
\* issues no remote step but those of lo_open, and no remote close call is
\* ever counted for a handle that was not opened.
C14_BogusNotFound ==
    /\ [](/\ \A h \in Handles :
                handles[h].state = "none" => close_calls[h] = 0 /\ close_prepared[h] = "none"
          /\ (last.op = "open" /\ ~last.res.ok) =>
                /\ last.h = 0
                /\ \A i \in 1..Len(last.steps) : last.steps[i].fn = "lo_open")
    /\ [][BogusFails]_vars

\* opening an identifier whose object was deleted
C14_Witness ==
    /\ last.op = "open"
    /\ last.res = Err("UndefinedObject")
    /\ last.arg.oid \in Oids
    /\ server.next_oid > last.arg.oid
    /\ \A h \in Handles : handles[h].state # "live"

\* C15: whatever numbers major and minor the server version string states
\* (with or without a patch number after them), a handle that open returns
\* is 64-bit capable exactly when major > 9, or major = 9 and minor >= 3.
C15_Capability ==
    (last.op = "open" /\ last.res.ok) =>
        \A major \in Majors, minor \in Minors, patch \in Patches :
            server_version = VersionString(major, minor, patch) =>
                (handles[last.h].has_64 <=> (major > 9 \/ (major = 9 /\ minor >= 3)))

\* 9.10: a minor number of two digits whose first digit is below 3
C15_Witness ==
    /\ last.op = "open"
    /\ last.res.ok
    /\ server_version = <<"9", ".", "1", "0">>
    /\ handles[last.h].has_64

\* the remote functions of the 64-bit and of the 32-bit family
Family(has_64) == IF has_64 THEN {"lo_lseek64", "lo_truncate64"} ELSE {"lo_lseek", "lo_truncate"}

\* C16: the capability of a handle is the one it got at open and never
\* changes; every remote step of a seek or a truncate on the handle names a
\* function of the 64-bit family when the capability is true and of the
\* 32-bit family when it is false (lo_lseek[64] for seek, lo_truncate[64]
\* for truncate), so no handle uses both families.
C16_OneFamily ==
    /\ [](last.op \in {"seek", "truncate"} =>
            \A i \in 1..Len(last.steps) :
                /\ last.steps[i].fn \in Family(handles[last.h].has_64)
                /\ last.steps[i].fn \in (IF last.op = "seek"
                                          THEN {"lo_lseek64", "lo_lseek"}
                                          ELSE {"lo_truncate64", "lo_truncate"}))
    /\ [][\A h \in Handles :
              handles[h].state # "none" => handles'[h].has_64 = handles[h].has_64]_vars

\* a truncate sent to lo_truncate right after a seek sent to lo_lseek
C16_Witness ==
    /\ last.op = "truncate"
    /\ ~handles[last.h].has_64
    /\ Executed(last.steps, "lo_truncate") # {}
    /\ last.pre.tell >= 0

\* the descriptor of handle g as the server holds it
Descriptor(srv, g) == srv.fds[fd_of(handles[g])]

\* a read, write, seek or close on one handle leaves the other handles,
\* their descriptors and their cursors as they were
OthersUntouched ==
    last'.op \in {"read", "write", "seek", "finish", "drop"} =>
        \A g \in Handles \ {last'.h} :
            /\ handles'[g] = handles[g]
            /\ close_calls'[g] = close_calls[g]
            /\ (handles[g].state = "live" /\ FdOpen(server, fd_of(handles[g]))) =>
                  /\ Descriptor(server', g).open
                  /\ Descriptor(server', g).pos = Descriptor(server, g).pos
                  /\ Descriptor(server', g).oid = Descriptor(server, g).oid

\* C17: handles that are open at the same time, on the same object, have
\* different descriptors, each open on the server with its own cursor; a
\* read, write, seek or close on one handle leaves every other handle's
\* descriptor, cursor and closed flag unchanged, and the other handles stay
\* open when one is closed.
C17_HandlesIndependent ==
    /\ [](\A h \in Handles, g \in Handles :
            (h # g /\ handles[h].state = "live" /\ handles[g].state = "live") =>
                /\ fd_of(handles[h]) # fd_of(handles[g])
                /\ FdOpen(server, fd_of(handles[h]))
                /\ ~handles[h].finished)
    /\ [][OthersUntouched]_vars

\* one of two handles on the object is closed while the other stands inside
\* the object
C17_Witness ==
    /\ last.op = "finish"
    /\ last.res.ok
    /\ \E g \in Handles \ {last.h} :
          /\ handles[g].state = "live"
          /\ FdOpen(server, fd_of(handles[g]))
          /\ Descriptor(server, g).pos > 0
          /\ close_calls[g] = 0

\* the operations that return what their remote calls return
RemoteOps == {"read", "write", "seek", "truncate", "open", "create", "delete"}

\* C18: when a remote step of read, write, seek, truncate, open, create or
\* delete fails (the preparation or the execution of its statement, by the
\* connection or by the server), that step is the last remote step of the
\* operation and the operation returns an error value, which is that
\* failure and no panic; no statement is prepared or executed a second time.
C18_FailFast ==
    last.op \in RemoteOps =>
        /\ Len(last.steps) <= 2
        /\ \A i \in 1..Len(last.steps) :
              /\ (i = 1) <=> (last.steps[i].kind = "prepare")
              /\ ~last.steps[i].ok =>
                    /\ i = Len(last.steps)
                    /\ ~last.res.ok
                    /\ last.res.err \in {"Io", "Db", "UndefinedObject", "InsufficientPrivilege"}
        /\ (last.res.ok /\ last.steps # <<>>) =>
              Len(last.steps) = 2 /\ last.steps[2].ok

\* a truncate whose statement the connection fails to execute
C18_Witness ==
    /\ last.op = "truncate"
    /\ Len(last.steps) = 2
    /\ ~last.steps[2].ok
    /\ last.res = Err("Io")

\* the methods that use the handle without closing it
UseOps == {"read", "write", "flush", "seek", "truncate", "fd"}

\* C19: a read, write, flush, seek, truncate or fd() leaves the handle as
\* it was, descriptor, capability and closed flag, whether it returns
\* success or an error; the closed flag of a handle changes only in a
\* finish or a drop of that handle.
C19_HandleKept ==
    [][/\ last'.op \in UseOps => handles' = handles
       /\ \A h \in Handles :
             handles'[h].finished # handles[h].finished =>
                 last'.op \in CloseOps /\ last'.h = h]_vars

\* a seek the server rejected, on a handle that is as open returned it
C19_Witness ==
    /\ last.op = "seek"
    /\ last.res = Err("Db")
    /\ handles[last.h].state = "live"
    /\ ~handles[last.h].finished
    /\ FdOpen(server, fd_of(handles[last.h]))

\* C20 as stated: on a 64-bit capable handle seek(Start(p)) fails locally,
\* with an invalid-input error and no remote step, exactly when p is above
\* the largest signed 64-bit value; every p up to that value goes to
\* lo_lseek64 with offset p and whence 0.
C20_SeekStartRange ==
    (last.op = "seek" /\ last.arg.from = "Start" /\ handles[last.h].has_64) =>
        /\ (last.res = Err("InvalidInput") /\ last.steps = <<>>) <=> (last.arg.n > I64Max)
        /\ last.arg.n <= I64Max =>
              /\ last.steps # <<>>
              /\ \A i \in 1..Len(last.steps) :
                    /\ last.steps[i].fn = "lo_lseek64"
                    /\ last.steps[i].kind = "execute" =>
                          last.steps[i].args = <<fd_of(handles[last.h]), last.arg.n, 0>>

====
